---- MODULE Spec2Model ----
(***************************************************************************)
(* Model of metadev: the `join_i18n` command (join_i18n.go) that merges    *)
(* flat JSON dictionaries, and the `i18n` command (i18n.go) that extracts  *)
(* translation keys from .tsx files in two passes and writes one JSON      *)
(* dictionary per namespace.                                               *)
(*                                                                         *)
(* Strings whose characters matter (aliases, namespaces, keys, values) are *)
(* sequences of one-character strings.  File names are sequences of their  *)
(* dot-separated parts: "f1.json" is <<"f1","json">>, ".git" is            *)
(* <<"","git">>.  A JSON text is the sequence of its <<key, value>>        *)
(* members in the order they stand in the file.                            *)
(***************************************************************************)
EXTENDS Integers, Sequences, FiniteSets, TLC

\* ------------------------------------------------------------------ bounds
MaxArgs == 3
MaxRuns == 2

\* ----------------------------------------------------------------- strings
Alphabet == <<"1", "A", "B", "_", "a", "b", "j", "k", "t", "x", "y">>

Ord(c) == CHOOSE i \in 1..Len(Alphabet) : Alphabet[i] = c

RECURSIVE StrLess(_, _)
StrLess(s, u) ==
  IF u = <<>> THEN FALSE
  ELSE IF s = <<>> THEN TRUE
  ELSE IF Ord(Head(s)) # Ord(Head(u)) THEN Ord(Head(s)) < Ord(Head(u))
  ELSE StrLess(Tail(s), Tail(u))

RECURSIVE Insert(_, _)
Insert(k, sorted) ==
  IF sorted = <<>> THEN <<k>>
  ELSE IF StrLess(k, Head(sorted)) THEN <<k>> \o sorted
  ELSE <<Head(sorted)>> \o Insert(k, Tail(sorted))

RECURSIVE SortStrings(_)
SortStrings(keys) ==
  IF keys = <<>> THEN <<>>
  ELSE Insert(Head(keys), SortStrings(Tail(keys)))

Range(s) == {s[i] : i \in 1..Len(s)}

Perms(S) == {p \in [1..Cardinality(S) -> S] : Range(p) = S}

EmptyMap == [k \in {} |-> <<>>]

\* -------------------------------------------------------- JSON (both files)
\* json.Unmarshal into map[string]string: members in text order, a repeated
\* key keeps its last value.
RECURSIVE Unmarshal(_)
Unmarshal(pairs) ==
  IF pairs = <<>> THEN EmptyMap
  ELSE LET n    == Len(pairs)
           rest == Unmarshal(SubSeq(pairs, 1, n - 1))
           k    == pairs[n][1]
       IN  [x \in DOMAIN rest \cup {k} |-> IF x = k THEN pairs[n][2] ELSE rest[x]]

\* A marshaller that writes the members in the order the map hands them out.
MarshalIndentMapOrder(data, iter) ==
  [i \in 1..Len(iter) |-> <<iter[i], data[iter[i]]>>]

\* json.MarshalIndent of a map[string]string: one member per key, keys in
\* sorted order whatever order the map hands them out in.
MarshalIndent(data, iter) ==
  LET sorted == SortStrings(iter)
  IN  [i \in 1..Len(sorted) |-> <<sorted[i], data[sorted[i]]>>]

\* =================================================================
\* join_i18n.go : the merge command
\* =================================================================
VARIABLES disk, inputDisk, script, si, args, outputFile, mpc, mi, merged,
          diskAtStart, nread

mvars == <<disk, inputDisk, script, si, args, outputFile, mpc, mi, merged,
           diskAtStart, nread>>

\* i18n.go : the extract command's state
VARIABLES rootName, tree, gitignore, i18nDirExists, i18nDir,
          pc, runs, wi, globalTranslationMap, keys, namespaceKeys,
          visited1, visited2, gitignoreAtStart, lastOutput, cleared,
          startedClean, failing, warnings1, warnings2

evars == <<rootName, tree, gitignore, i18nDirExists, i18nDir,
           pc, runs, wi, globalTranslationMap, keys, namespaceKeys,
           visited1, visited2, gitignoreAtStart, lastOutput, cleared,
           startedClean, failing, warnings1, warnings2>>

vars == <<mvars, evars>>

Empty == <<>>

\* File contents.  kind: "missing" (no such file), "unreadable" (exists, the
\* read fails), "garbage" (not a flat string-to-string JSON object),
\* "partial" (truncated by an interrupted write), "text" (a JSON object).
Missing    == [kind |-> "missing",    pairs |-> <<>>]
Unreadable == [kind |-> "unreadable", pairs |-> <<>>]
Garbage    == [kind |-> "garbage",    pairs |-> <<>>]
Partial    == [kind |-> "partial",    pairs |-> <<>>]
Text(pairs) == [kind |-> "text", pairs |-> pairs]

InputStem == <<"f1", "f2", "f3", "f4", "f5">>
InputName(i) == <<InputStem[i], "json">>
InputNames == {InputName(i) : i \in 1..MaxArgs}
InputArgs(lo, hi) == [i \in 1..(hi - lo + 1) |-> InputName(lo + i - 1)]

NotesTxt    == <<"notes", "txt">>
MissingJson == <<"missing", "json">>
LockedJson  == <<"locked", "json">>
GarbageJson == <<"garbage", "json">>
OutJson     == <<"out", "json">>
FinalJson   == <<"final", "json">>
ErrorNames  == {NotesTxt, MissingJson, LockedJson, GarbageJson}

\* generateRandomFileName: "merged_i18n_" followed by 16 hex digits.
generateRandomFileName == <<"merged_i18n_r">>

AllNames == InputNames \cup ErrorNames
              \cup {OutJson, FinalJson, Append(generateRandomFileName, "json")}

\* The JSON objects the input files are drawn from: key a absent, empty or
\* one of two translations, key b absent or translated; and one text with
\* its members out of order and a repeated key.
InputTexts ==
  { Text(pa \o pb) :
      pa \in {<<>>, << <<(<<"a">>), Empty>> >>, << <<(<<"a">>), <<"x">>>> >>,
              << <<(<<"a">>), <<"y">>>> >>},
      pb \in {<<>>, << <<(<<"b">>), <<"x">>>> >>, << <<(<<"b">>), <<"y">>>> >>} }
  \cup { Text(<< <<(<<"b">>), <<"y">>>>, <<(<<"a">>), Empty>>, <<(<<"b">>), Empty>> >>) }

\* strings.HasSuffix(file, ".json")
HasSuffixJson(file) == Len(file) >= 2 /\ file[Len(file)] = "json"

\* A merge in which any later non-empty value replaces the earlier one.
MergeIntoLastWins(m, data) ==
  [k \in DOMAIN m \cup DOMAIN data |->
     IF k \notin DOMAIN m THEN data[k]
     ELSE IF k \in DOMAIN data /\ data[k] # Empty THEN data[k]
     ELSE m[k]]

\* join_i18n.go:84-96, the body of the loop over one file's members.
MergeInto(m, data) ==
  [k \in DOMAIN m \cup DOMAIN data |->
     IF k \notin DOMAIN m THEN data[k]
     ELSE IF k \in DOMAIN data /\ m[k] = Empty /\ data[k] # Empty THEN data[k]
     ELSE m[k]]

\* mergeJSONFiles on files that all parse.
RECURSIVE mergeJSONFiles(_)
mergeJSONFiles(dicts) ==
  IF dicts = <<>> THEN EmptyMap
  ELSE MergeInto(mergeJSONFiles(SubSeq(dicts, 1, Len(dicts) - 1)), dicts[Len(dicts)])

\* The output path of runJoinI18n (join_i18n.go:50-56).
OutputPath(flag) ==
  LET output == IF flag = <<>> THEN generateRandomFileName ELSE flag
  IN  IF HasSuffixJson(output) THEN output ELSE Append(output, "json")

\* A writer that leaves out the keys that have no translation yet.
writeJSONFileDropEmpty(data, iter, iter2) ==
  LET sortedKeys == SelectSeq(SortStrings(iter), LAMBDA k : data[k] # Empty)
  IN  Text([i \in 1..Len(sortedKeys) |-> <<sortedKeys[i], data[sortedKeys[i]]>>])

\* writeJSONFile's bytes (join_i18n.go:103-116): the keys are collected in
\* map order and sorted, copied into a second map, and that map is
\* marshalled, which hands its keys out in an order of its own.
writeJSONFile(data, iter, iter2) ==
  LET sortedKeys  == SortStrings(iter)
      orderedData == [k \in Range(sortedKeys) |-> data[k]]
  IN  Text(MarshalIndent(orderedData, iter2))

\* What the user types: one invocation, or two where the second merges the
\* first one's output with the remaining inputs.
Invocation(a, o) == [args |-> a, output |-> o]
OutputFlags == {OutJson, <<"out">>, <<>>}
DirectScripts ==
  { << Invocation(InputArgs(1, n), o) >> : n \in 1..MaxArgs, o \in OutputFlags }
ErrorScripts ==
  { << Invocation(<<InputName(1), e>>, OutJson) >> : e \in ErrorNames }
BatchScripts ==
  { << Invocation(InputArgs(1, p), OutJson),
       Invocation(<<OutJson>> \o InputArgs(p + 1, MaxArgs), FinalJson) >> :
      p \in 1..(MaxArgs - 1) }
Scripts == DirectScripts \cup ErrorScripts \cup BatchScripts

MergeInit ==
  /\ \E d \in [InputNames -> InputTexts] :
       disk = [n \in AllNames |->
                 IF n \in InputNames THEN d[n]
                 ELSE IF n = NotesTxt THEN Text(<<>>)
                 ELSE IF n = LockedJson THEN Unreadable
                 ELSE IF n = GarbageJson THEN Garbage
                 ELSE Missing]
  /\ inputDisk = disk
  /\ script \in Scripts
  /\ si = 0
  /\ args = <<>>
  /\ outputFile = <<>>
  /\ mpc = "idle"
  /\ mi = 1
  /\ merged = EmptyMap
  /\ diskAtStart = disk
  /\ nread = 0

\* The command is started with the next line of the script.
runJoinI18n ==
  /\ mpc \in {"idle", "done", "failed"}
  /\ si < Len(script)
  /\ si' = si + 1
  /\ args' = script[si + 1].args
  /\ outputFile' = script[si + 1].output
  /\ mpc' = "validate"
  /\ mi' = 1
  /\ merged' = EmptyMap
  /\ diskAtStart' = disk
  /\ nread' = 0
  /\ UNCHANGED <<disk, inputDisk, script>>
  /\ UNCHANGED evars

\* One iteration of the validation loop (join_i18n.go:31-40).
ValidateInput ==
  /\ mpc = "validate"
  /\ LET file == args[mi]
     IN  IF ~HasSuffixJson(file) \/ disk[file].kind = "missing"
         THEN mpc' = "failed" /\ mi' = mi
         ELSE IF mi = Len(args)
              THEN mpc' = "merge" /\ mi' = 1
              ELSE mpc' = "validate" /\ mi' = mi + 1
  /\ UNCHANGED <<disk, inputDisk, script, si, args, outputFile, merged,
                 diskAtStart, nread>>
  /\ UNCHANGED evars

\* One iteration of mergeJSONFiles' loop over the files (join_i18n.go:71-97).
MergeFile ==
  /\ mpc = "merge"
  /\ nread' = nread + 1
  /\ LET content == disk[args[mi]]
     IN  IF content.kind # "text"
         THEN mpc' = "failed" /\ mi' = mi /\ merged' = merged
         ELSE /\ merged' = MergeInto(merged, Unmarshal(content.pairs))
              /\ IF mi = Len(args)
                 THEN mpc' = "write" /\ mi' = mi
                 ELSE mpc' = "merge" /\ mi' = mi + 1
  /\ UNCHANGED <<disk, inputDisk, script, si, args, outputFile, diskAtStart>>
  /\ UNCHANGED evars

\* writeJSONFile succeeds (join_i18n.go:59, 102-127).
WriteOutput ==
  /\ mpc = "write"
  /\ \E iter \in Perms(DOMAIN merged), iter2 \in Perms(DOMAIN merged) :
       disk' = [disk EXCEPT ![OutputPath(outputFile)] =
                                writeJSONFile(merged, iter, iter2)]
  /\ mpc' = "done"
  /\ UNCHANGED <<inputDisk, script, si, args, outputFile, mi, merged,
                 diskAtStart, nread>>
  /\ UNCHANGED evars

\* os.WriteFile fails: either the open fails and nothing changes, or the
\* file was created or truncated and the write stops short.
WriteOutputFails ==
  /\ mpc = "write"
  /\ \/ disk' = disk
     \/ disk' = [disk EXCEPT ![OutputPath(outputFile)] = Partial]
  /\ mpc' = "failed"
  /\ UNCHANGED <<inputDisk, script, si, args, outputFile, mi, merged,
                 diskAtStart, nread>>
  /\ UNCHANGED evars

NextMerge ==
  \/ runJoinI18n
  \/ ValidateInput
  \/ MergeFile
  \/ WriteOutput
  \/ WriteOutputFails

\* ------------------------------------------------------------ merge claims
Min(S) == CHOOSE x \in S : \A y \in S : x <= y

\* The dictionary an input file held when the command started.
DictOf(file) == Unmarshal(diskAtStart[file].pairs)

FirstNonEmpty(k, files) ==
  LET idx == {i \in 1..Len(files) :
                k \in DOMAIN DictOf(files[i]) /\ DictOf(files[i])[k] # Empty}
  IN  IF idx = {} THEN Empty ELSE DictOf(files[Min(idx)])[k]

\* C1: once every input file has been merged, the result's key set is the
\* union of the files' key sets, and each key holds the value of the first
\* file in input order that gives it a non-empty value, or the empty string
\* when no file does.
C1_FirstNonEmptyWins ==
  mpc \in {"write", "done"} =>
    /\ DOMAIN merged = UNION {DOMAIN DictOf(args[i]) : i \in 1..Len(args)}
    /\ \A k \in DOMAIN merged : merged[k] = FirstNonEmpty(k, args)

\* {a:"", b:"x"} merged with {a:"y", b:"y"}, in that order, has given
\* {a:"y", b:"x"}.
C1_Witness ==
  /\ mpc = "done"
  /\ args = <<InputName(1), InputName(2)>>
  /\ DictOf(InputName(1)) = (<<"a">> :> Empty) @@ (<<"b">> :> <<"x">>)
  /\ DictOf(InputName(2)) = (<<"a">> :> <<"y">>) @@ (<<"b">> :> <<"y">>)
  /\ merged = (<<"a">> :> <<"y">>) @@ (<<"b">> :> <<"x">>)

IsBatch == Len(script) = 2

\* C2: when the first inputs are merged into out.json and out.json is then
\* merged with the remaining inputs, the final file holds the same keys and
\* values as one merge of all the inputs in the same order.
C2_BatchingIndependent ==
  (IsBatch /\ si = 2 /\ mpc = "done") =>
    /\ disk[FinalJson].kind = "text"
    /\ Unmarshal(disk[FinalJson].pairs) =
         mergeJSONFiles([i \in 1..MaxArgs |-> Unmarshal(inputDisk[InputName(i)].pairs)])

\* A batched merge finished in which a key is empty in the first batch and
\* translated only in the second.
C2_Witness ==
  /\ IsBatch /\ si = 2 /\ mpc = "done"
  /\ \E k \in DOMAIN merged :
       /\ k \in DOMAIN DictOf(OutJson)
       /\ DictOf(OutJson)[k] = Empty
       /\ merged[k] # Empty

\* C3: inputs are all validated before any is read; a failed command has
\* left every file as it was; a file changes only when the command succeeds.
C3_NoOutputOnFailure ==
  /\ (mpc = "validate" => nread = 0)
  /\ (mpc = "failed" => disk = diskAtStart)
  /\ (disk # diskAtStart => mpc = "done")

\* =================================================================
\* i18n.go : the extract command
\* =================================================================
Letters   == {"A", "B", "a", "b", "j", "k", "t", "x", "y"}
Digits    == {"1"}
WordChars == Letters \cup Digits \cup {"_"}

ToLowerChar(c) == IF c = "A" THEN "a" ELSE IF c = "B" THEN "b" ELSE c
ToLower(str) == [i \in 1..Len(str) |-> ToLowerChar(str[i])]

\* A source file is the sequence of the statements the two patterns look
\* for:  const { t: alias } = useTranslation('arg')   and   alias('arg').
Decl(alias, ns)  == [kind |-> "decl", alias |-> alias, arg |-> ns]
Call(alias, key) == [kind |-> "call", alias |-> alias, arg |-> key]

\* useTranslationRegex (i18n.go:411): the alias is \w+, the namespace [^'"]+.
MatchesDeclaration(st) ==
  /\ st.kind = "decl"
  /\ Len(st.alias) >= 1
  /\ \A i \in 1..Len(st.alias) : st.alias[i] \in WordChars
  /\ Len(st.arg) >= 1

\* allCallsRegex (i18n.go:435): \b(t[A-Za-z][A-Za-z0-9]*) and a key [^'"]+.
MatchesCall(st) ==
  /\ st.kind = "call"
  /\ Len(st.alias) >= 2
  /\ st.alias[1] = "t"
  /\ st.alias[2] \in Letters
  /\ \A i \in 3..Len(st.alias) : st.alias[i] \in Letters \cup Digits
  /\ Len(st.arg) >= 1

\* extractUseTranslationDeclarations on a file that was read: every match in
\* file order, each overwriting the alias's earlier binding.
RECURSIVE extractUseTranslationDeclarations(_)
extractUseTranslationDeclarations(content) ==
  IF content = <<>> THEN EmptyMap
  ELSE LET n    == Len(content)
           rest == extractUseTranslationDeclarations(SubSeq(content, 1, n - 1))
           st   == content[n]
       IN  IF MatchesDeclaration(st)
           THEN [x \in DOMAIN rest \cup {st.alias} |->
                   IF x = st.alias THEN st.arg ELSE rest[x]]
           ELSE rest

\* A merge into the project-wide map that keeps an alias's first binding.
MergeIntoGlobalFirstWins(globalMap, fileMap) ==
  [x \in DOMAIN globalMap \cup DOMAIN fileMap |->
     IF x \in DOMAIN globalMap THEN globalMap[x] ELSE fileMap[x]]

\* i18n.go:312-314
MergeIntoGlobal(globalMap, fileMap) ==
  [x \in DOMAIN globalMap \cup DOMAIN fileMap |->
     IF x \in DOMAIN fileMap THEN fileMap[x] ELSE globalMap[x]]

Common == <<"c", "o", "m", "m", "o", "n">>

\* A resolver that goes by the alias's spelling alone.
ResolveNamespaceBySpelling(tVariable, globalMapping) ==
  IF tVariable[1] = "t" /\ Len(tVariable) > 1 THEN ToLower(Tail(tVariable))
  ELSE Common

\* i18n.go:443-454
ResolveNamespace(tVariable, globalMapping) ==
  IF tVariable \in DOMAIN globalMapping THEN globalMapping[tVariable]
  ELSE IF tVariable[1] = "t" /\ Len(tVariable) > 1 THEN ToLower(Tail(tVariable))
  ELSE Common

TranslationKey(key, namespace, file) ==
  [Key |-> key, Namespace |-> namespace, File |-> file]

\* parseFileWithMapping on a file that was read.
RECURSIVE parseFileWithMapping(_, _, _)
parseFileWithMapping(filePath, content, globalMapping) ==
  IF content = <<>> THEN <<>>
  ELSE LET st == Head(content)
           rest == parseFileWithMapping(filePath, Tail(content), globalMapping)
       IN  IF MatchesCall(st)
           THEN <<TranslationKey(st.arg, ResolveNamespace(st.alias, globalMapping),
                                 filePath)>> \o rest
           ELSE rest

skipDirs == << <<"node_modules">>, <<"vendor">>, <<"", "git">>, <<"", "next">>,
               <<"dist">>, <<"build">> >>

shouldSkipDir(dirName) == \E i \in 1..Len(skipDirs) : dirName = skipDirs[i]

\* strings.HasSuffix(path, ".tsx"), decided by the path's last element.
HasSuffixTsx(name) == Len(name) >= 2 /\ name[Len(name)] = "tsx"

\* ------------------------------------------------------------ the file tree
Dir(path)  == [path |-> path, isDir |-> TRUE]
File(path) == [path |-> path, isDir |-> FALSE]

ATsx == << <<"a", "tsx">> >>
BTsx == << <<"dist">>, <<"b", "tsx">> >>
CTsx == << <<"src">>, <<"c", "tsx">> >>
ETs  == << <<"src">>, <<"e", "ts">> >>
DTsx == << <<"src">>, <<"node_modules">>, <<"d", "tsx">> >>

\* Every entry a tree may hold, in the order filepath.WalkDir yields them:
\* a directory before its content, the names of one directory in lexical
\* order.
AllEntries ==
  << Dir(<<>>),
     File(ATsx),
     Dir(<< <<"dist">> >>),
     File(BTsx),
     Dir(<< <<"src">> >>),
     File(CTsx),
     File(ETs),
     Dir(<< <<"src">>, <<"node_modules">> >>),
     File(DTsx) >>

Present(e) == e.isDir \/ e.path \in DOMAIN tree

Walk == SelectSeq(AllEntries, Present)

\* d.Name(): the last element of the path; the root's own name for the root.
Name(e) == IF e.path = <<>> THEN rootName ELSE e.path[Len(e.path)]

IsPrefix(p, q) == Len(p) <= Len(q) /\ SubSeq(q, 1, Len(p)) = p

\* The entry the walk goes to after entry i when the callback returns
\* filepath.SkipDir: the first one outside i's subtree.
AfterSubtree(i) ==
  LET later == {j \in (i + 1)..Len(Walk) : ~IsPrefix(Walk[i].path, Walk[j].path)}
  IN  IF later = {} THEN Len(Walk) + 1 ELSE Min(later)

tA == <<"t", "A">>
tB == <<"t", "B">>
t1 == <<"t", "1">>
tBare == <<"t">>
nsA == <<"a">>
nsB == <<"b">>
keyK == <<"k">>
keyJ == <<"j">>

\* The texts the two files outside pruned directories are drawn from.
Contents ==
  { << Decl(tA, nsB), Call(tA, keyK) >>,
    << Call(tA, keyK), Call(tA, keyJ), Call(tB, keyJ), Call(tA, keyK) >>,
    << Decl(tA, nsB), Decl(tA, nsA), Call(tB, keyK) >>,
    << Decl(tBare, nsB), Call(tBare, keyK), Call(t1, keyJ) >>,
    << Call(tBare, keyK), Call(tA, keyJ) >> }

\* The text of a file inside a pruned directory, and of the .ts file.
OtherContent == << Decl(tB, nsA), Call(tB, keyK), Call(tA, keyJ) >>

SourceFile(content, readable) == [content |-> content, readable |-> readable]

\* The texts of the files whose read can fail: one that declares and calls
\* the same alias, one that declares an alias twice and calls another.
LockedContents ==
  { << Decl(tA, nsB), Call(tA, keyK) >>,
    << Decl(tA, nsB), Decl(tA, nsA), Call(tB, keyK) >> }

SourceFiles ==
  {SourceFile(c, TRUE) : c \in Contents} \cup {SourceFile(c, FALSE) : c \in LockedContents}

Trees ==
  { t1f @@ t2f @@ t3f @@ t4f @@ (ETs :> SourceFile(OtherContent, TRUE)) :
      t1f \in {EmptyMap} \cup {ATsx :> f : f \in SourceFiles},
      t2f \in {EmptyMap} \cup {CTsx :> f : f \in SourceFiles},
      t3f \in {EmptyMap, BTsx :> SourceFile(OtherContent, TRUE)},
      t4f \in {EmptyMap, DTsx :> SourceFile(OtherContent, TRUE)} }

RootNames == { <<"proj">>, <<"build">> }

\* ------------------------------------------------------------- .gitignore
\* The ignore file's text is a sequence of pieces: "P" is the six characters
\* .i18n/ , "N" a newline, "x" any other character.
P == "P"
N == "N"

NoFile        == [kind |-> "missing", text |-> <<>>]
LockedFile    == [kind |-> "unreadable", text |-> <<>>]
TextFile(txt) == [kind |-> "text", text |-> txt]

\* strings.HasPrefix in the place of strings.Contains.
HasPrefixPattern(contentStr) == contentStr # <<>> /\ contentStr[1] = P

\* strings.Contains(contentStr, ".i18n/")
ContainsPattern(contentStr) == \E i \in 1..Len(contentStr) : contentStr[i] = P

\* strings.HasSuffix(contentStr, "\n")
HasSuffixNewline(contentStr) == contentStr # <<>> /\ contentStr[Len(contentStr)] = N

\* i18n.go:531-538, the text updateGitignore writes when the pattern is
\* not in the file yet.
NewGitignoreText(gitignoreExists, contentStr) ==
  IF ~gitignoreExists THEN <<P, N>>
  ELSE IF ~HasSuffixNewline(contentStr) THEN contentStr \o <<N>> \o <<P, N>>
  ELSE contentStr \o <<P, N>>

Gitignores ==
  { NoFile, LockedFile, TextFile(<<>>), TextFile(<<"x", N>>), TextFile(<<"x">>),
    TextFile(<<P, N>>), TextFile(<<"x", N, P>>), TextFile(<<"x", P, "x", N>>) }

\* ------------------------------------------------------------------ actions
ExtractInit ==
  /\ rootName \in RootNames
  /\ tree \in Trees
  /\ gitignore \in Gitignores
  /\ i18nDirExists = FALSE
  /\ i18nDir = EmptyMap
  /\ pc = "idle"
  /\ runs = 0
  /\ wi = 1
  /\ globalTranslationMap = EmptyMap
  /\ keys = <<>>
  /\ namespaceKeys = EmptyMap
  /\ visited1 = {}
  /\ visited2 = {}
  /\ gitignoreAtStart = gitignore
  /\ lastOutput = EmptyMap
  /\ cleared = TRUE
  /\ startedClean = TRUE
  /\ failing \in IF \E p \in DOMAIN tree : ~tree[p].readable
                 THEN {{1}, {2}, {1, 2}} ELSE {{1, 2}}
  /\ warnings1 = {}
  /\ warnings2 = {}

\* The command is started (i18n.go:254).
runI18n ==
  /\ pc \in {"idle", "done", "failed"}
  /\ runs < MaxRuns
  /\ runs' = runs + 1
  /\ pc' = "collect"
  /\ wi' = 1
  /\ globalTranslationMap' = EmptyMap
  /\ keys' = <<>>
  /\ namespaceKeys' = EmptyMap
  /\ visited1' = {}
  /\ visited2' = {}
  /\ gitignoreAtStart' = gitignore
  /\ startedClean' = cleared
  /\ cleared' = FALSE
  /\ UNCHANGED <<rootName, tree, gitignore, i18nDirExists, i18nDir, lastOutput>>
  /\ warnings1' = {}
  /\ warnings2' = {}
  /\ UNCHANGED <<mvars, failing>>

\* What the callback of either walk does with entry e before it reads
\* anything (i18n.go:297-303 and 331-337).
Skips(e) == e.isDir /\ shouldSkipDir(Name(e))
Reads(e) == ~Skips(e) /\ HasSuffixTsx(Name(e))
\* os.ReadFile in the pass that is running: the read of a file marked
\* unreadable fails in the passes listed in failing, the read of a
\* directory always fails.
Pass == IF pc = "collect" THEN 1 ELSE 2
ReadOK(e) == ~e.isDir /\ (tree[e.path].readable \/ Pass \notin failing)
\* A callback that ends the walk at the first file it cannot read.
NextEntryStopOnError(i) ==
  IF Reads(Walk[i]) /\ ~ReadOK(Walk[i]) THEN Len(Walk) + 1
  ELSE IF Skips(Walk[i]) THEN AfterSubtree(i) ELSE i + 1

NextEntry(i) == IF Skips(Walk[i]) THEN AfterSubtree(i) ELSE i + 1

\* First pass, one call of the walk's callback (i18n.go:292-317).
CollectVisit ==
  /\ pc = "collect"
  /\ LET e == Walk[wi]
     IN  /\ visited1' = IF Reads(e) THEN visited1 \cup {e.path} ELSE visited1
         /\ warnings1' = IF Reads(e) /\ ~ReadOK(e) THEN warnings1 \cup {e.path}
                          ELSE warnings1
         /\ globalTranslationMap' =
              IF Reads(e) /\ ReadOK(e)
              THEN MergeIntoGlobal(globalTranslationMap,
                                   extractUseTranslationDeclarations(tree[e.path].content))
              ELSE globalTranslationMap
  /\ IF NextEntry(wi) > Len(Walk)
     THEN pc' = "resolve" /\ wi' = 1
     ELSE pc' = "collect" /\ wi' = NextEntry(wi)
  /\ UNCHANGED <<rootName, tree, gitignore, i18nDirExists, i18nDir, runs, keys,
                 namespaceKeys, visited2, gitignoreAtStart, lastOutput, cleared,
                 startedClean>>
  /\ UNCHANGED <<mvars, failing, warnings2>>

\* Second pass, one call of the walk's callback (i18n.go:326-347).
ResolveVisit ==
  /\ pc = "resolve"
  /\ LET e == Walk[wi]
     IN  /\ visited2' = IF Reads(e) THEN visited2 \cup {e.path} ELSE visited2
         /\ warnings2' = IF Reads(e) /\ ~ReadOK(e) THEN warnings2 \cup {e.path}
                          ELSE warnings2
         /\ keys' =
              IF Reads(e) /\ ReadOK(e)
              THEN keys \o parseFileWithMapping(e.path, tree[e.path].content,
                                                globalTranslationMap)
              ELSE keys
  /\ IF NextEntry(wi) > Len(Walk)
     THEN pc' = "setup" /\ wi' = 1
     ELSE pc' = "resolve" /\ wi' = NextEntry(wi)
  /\ UNCHANGED <<rootName, tree, gitignore, i18nDirExists, i18nDir, runs,
                 globalTranslationMap, namespaceKeys, visited1, gitignoreAtStart,
                 lastOutput, cleared, startedClean>>
  /\ UNCHANGED <<mvars, failing, warnings1>>

\* setupI18nDirectory (i18n.go:504-511): os.MkdirAll succeeds or fails.
setupI18nDirectory ==
  /\ pc = "setup"
  /\ \/ i18nDirExists' = TRUE /\ pc' = "gitignore"
     \/ i18nDirExists' = i18nDirExists /\ pc' = "failed"
  /\ UNCHANGED <<rootName, tree, gitignore, i18nDir, runs, wi,
                 globalTranslationMap, keys, namespaceKeys, visited1, visited2,
                 gitignoreAtStart, lastOutput, cleared, startedClean>>
  /\ UNCHANGED <<mvars, failing, warnings1, warnings2>>

\* updateGitignore when no write fails (i18n.go:513-552).
updateGitignore ==
  /\ pc = "gitignore"
  /\ IF gitignore.kind = "unreadable"
     THEN gitignore' = gitignore /\ pc' = "failed"
     ELSE LET gitignoreExists == gitignore.kind # "missing"
              contentStr      == gitignore.text
          IN  /\ gitignore' = IF ContainsPattern(contentStr) THEN gitignore
                              ELSE TextFile(NewGitignoreText(gitignoreExists, contentStr))
              /\ pc' = "generate"
  /\ UNCHANGED <<rootName, tree, i18nDirExists, i18nDir, runs, wi,
                 globalTranslationMap, keys, namespaceKeys, visited1, visited2,
                 gitignoreAtStart, lastOutput, cleared, startedClean>>
  /\ UNCHANGED <<mvars, failing, warnings1, warnings2>>

\* updateGitignore when os.WriteFile fails (i18n.go:540-543): nothing
\* changed, or the file was created or truncated and is left empty.
updateGitignoreWriteFails ==
  /\ pc = "gitignore"
  /\ gitignore.kind # "unreadable"
  /\ ~ContainsPattern(gitignore.text)
  /\ \/ gitignore' = gitignore
     \/ gitignore' = TextFile(<<>>)
  /\ pc' = "failed"
  /\ UNCHANGED <<rootName, tree, i18nDirExists, i18nDir, runs, wi,
                 globalTranslationMap, keys, namespaceKeys, visited1, visited2,
                 gitignoreAtStart, lastOutput, cleared, startedClean>>
  /\ UNCHANGED <<mvars, failing, warnings1, warnings2>>

\* i18n.go:468-472: the keys of each namespace, in extraction order.
GroupByNamespace(entries) ==
  [ns \in {entries[i].Namespace : i \in 1..Len(entries)} |->
     LET ofNs == SelectSeq(entries, LAMBDA e : e.Namespace = ns)
     IN  [i \in 1..Len(ofNs) |-> ofNs[i].Key]]

\* A dictionary whose values default to the keys.
TranslationMapKeyAsValue(keysList) == [k \in Range(keysList) |-> k]

\* i18n.go:475-484: the map that is marshalled for one namespace.
TranslationMap(keysList) == [k \in Range(keysList) |-> Empty]

Without(f, x) == [y \in DOMAIN f \ {x} |-> f[y]]

\* generateTranslationFiles, the grouping loop (i18n.go:468-472).
generateTranslationFiles ==
  /\ pc = "generate"
  /\ namespaceKeys' = GroupByNamespace(keys)
  /\ pc' = IF DOMAIN GroupByNamespace(keys) = {} THEN "done" ELSE "write"
  /\ UNCHANGED <<rootName, tree, gitignore, i18nDirExists, i18nDir, runs, wi,
                 globalTranslationMap, keys, visited1, visited2,
                 gitignoreAtStart, lastOutput, cleared, startedClean>>
  /\ UNCHANGED <<mvars, failing, warnings1, warnings2>>

\* generateTranslationFiles, one iteration of the loop over the namespaces
\* (i18n.go:474-499): the map hands out the namespaces, and the keys of
\* one namespace, in any order.
WriteNamespaceFile ==
  /\ pc = "write"
  /\ \E namespace \in DOMAIN namespaceKeys :
       LET translationMap == TranslationMap(namespaceKeys[namespace])
       IN  /\ \E iter \in Perms(DOMAIN translationMap) :
                i18nDir' = (namespace :> Text(MarshalIndent(translationMap, iter)))
                             @@ i18nDir
           /\ namespaceKeys' = Without(namespaceKeys, namespace)
           /\ pc' = IF DOMAIN namespaceKeys = {namespace} THEN "done" ELSE "write"
  /\ UNCHANGED <<rootName, tree, gitignore, i18nDirExists, runs, wi,
                 globalTranslationMap, keys, visited1, visited2,
                 gitignoreAtStart, lastOutput, cleared, startedClean>>
  /\ UNCHANGED <<mvars, failing, warnings1, warnings2>>

\* The same iteration when os.WriteFile fails (i18n.go:493-496).
WriteNamespaceFileFails ==
  /\ pc = "write"
  /\ \E namespace \in DOMAIN namespaceKeys :
       \/ i18nDir' = i18nDir
       \/ i18nDir' = (namespace :> Partial) @@ i18nDir
  /\ pc' = "failed"
  /\ UNCHANGED <<rootName, tree, gitignore, i18nDirExists, runs, wi,
                 globalTranslationMap, keys, namespaceKeys, visited1, visited2,
                 gitignoreAtStart, lastOutput, cleared, startedClean>>
  /\ UNCHANGED <<mvars, failing, warnings1, warnings2>>

\* Between two runs the user removes the output directory.
DeleteOutputDir ==
  /\ pc = "done"
  /\ ~cleared
  /\ runs < MaxRuns
  /\ lastOutput' = i18nDir
  /\ i18nDir' = EmptyMap
  /\ i18nDirExists' = FALSE
  /\ cleared' = TRUE
  /\ pc' = "idle"
  /\ UNCHANGED <<rootName, tree, gitignore, runs, wi, globalTranslationMap,
                 keys, namespaceKeys, visited1, visited2, gitignoreAtStart,
                 startedClean>>
  /\ UNCHANGED <<mvars, failing, warnings1, warnings2>>

Next ==
  \/ runI18n
  \/ CollectVisit
  \/ ResolveVisit
  \/ setupI18nDirectory
  \/ updateGitignore
  \/ updateGitignoreWriteFails
  \/ generateTranslationFiles
  \/ WriteNamespaceFile
  \/ WriteNamespaceFileFails
  \/ DeleteOutputDir

\* ----------------------------------------------------------- specifications
MergeIdle ==
  /\ disk = [n \in AllNames |-> Missing]
  /\ inputDisk = disk
  /\ script = <<>>
  /\ si = 0
  /\ args = <<>>
  /\ outputFile = <<>>
  /\ mpc = "idle"
  /\ mi = 1
  /\ merged = EmptyMap
  /\ diskAtStart = disk
  /\ nread = 0

ExtractIdle ==
  /\ rootName = <<"proj">>
  /\ tree = EmptyMap
  /\ gitignore = NoFile
  /\ i18nDirExists = FALSE
  /\ i18nDir = EmptyMap
  /\ pc = "idle"
  /\ runs = 0
  /\ wi = 1
  /\ globalTranslationMap = EmptyMap
  /\ keys = <<>>
  /\ namespaceKeys = EmptyMap
  /\ visited1 = {}
  /\ visited2 = {}
  /\ gitignoreAtStart = NoFile
  /\ lastOutput = EmptyMap
  /\ cleared = TRUE
  /\ startedClean = TRUE
  /\ failing = {1, 2}
  /\ warnings1 = {}
  /\ warnings2 = {}

\* The merge command alone.
InitMerge == MergeInit /\ ExtractIdle

SpecMerge == InitMerge /\ [][NextMerge]_vars

\* The extract command alone.
Init == ExtractInit /\ MergeIdle

Spec == Init /\ [][Next]_vars

\* ---------------------------------------------------------- extract claims
Max(S) == CHOOSE x \in S : \A y \in S : y <= x

RECURSIVE Concat(_)
Concat(seqs) == IF seqs = <<>> THEN <<>> ELSE Head(seqs) \o Concat(Tail(seqs))

LastName(path) == path[Len(path)]

\* A directory below the scan root with a pruned name is on the path.
PrunedBelowRoot(path) == \E i \in 1..(Len(path) - 1) : shouldSkipDir(path[i])

\* The .tsx files with no pruned directory below the root on their path.
EligibleFiles ==
  {p \in DOMAIN tree : HasSuffixTsx(LastName(p)) /\ ~PrunedBelowRoot(p)}

\* The files a pass reads: eligible, the root itself not called like a
\* pruned directory, and the read does not fail in that pass; in walk order.
ScannedIn(pass) ==
  SelectSeq(AllEntries,
            LAMBDA e : /\ ~e.isDir
                       /\ e.path \in EligibleFiles
                       /\ (tree[e.path].readable \/ pass \notin failing)
                       /\ ~shouldSkipDir(rootName))

\* Every declaration the first pass matches, in walk order.
DeclSeq ==
  LET scanned == ScannedIn(1)
  IN  Concat([i \in 1..Len(scanned) |->
                SelectSeq(tree[scanned[i].path].content, MatchesDeclaration)])

AliasesIn(decls) == {decls[i].alias : i \in 1..Len(decls)}

\* The last declaration of the alias in a sequence of declarations.
LastDeclarationIn(decls, alias) ==
  decls[Max({i \in 1..Len(decls) : decls[i].alias = alias})]

CollectionDone == pc \in {"resolve", "setup", "gitignore", "generate", "write", "done"}
PassesDone     == pc \in {"setup", "gitignore", "generate", "write", "done"}

\* C4, as claimed: every call site alias('key') whose alias is an identifier
\* starting with t yields one entry, with the map's namespace for a mapped
\* alias, else "common" for the alias t, else the lowercased rest of the
\* alias.
ClaimedNamespace(alias) ==
  IF alias \in DOMAIN globalTranslationMap THEN globalTranslationMap[alias]
  ELSE IF alias = <<"t">> THEN Common
  ELSE ToLower(Tail(alias))

IsCallSiteOfT(st) ==
  /\ st.kind = "call"
  /\ Len(st.arg) >= 1
  /\ Len(st.alias) >= 1
  /\ st.alias[1] = "t"
  /\ \A i \in 1..Len(st.alias) : st.alias[i] \in WordChars

ClaimedEntries(path) ==
  LET calls == SelectSeq(tree[path].content, IsCallSiteOfT)
  IN  [i \in 1..Len(calls) |->
         TranslationKey(calls[i].arg, ClaimedNamespace(calls[i].alias), path)]

C4_ResolutionRule ==
  PassesDone =>
    LET scanned == ScannedIn(2)
    IN  keys = Concat([i \in 1..Len(scanned) |-> ClaimedEntries(scanned[i].path)])

\* C5, as claimed: after the first pass the map binds the alias of every
\* declaration in a scanned file to that declaration's namespace.
C5_EveryDeclarationBound ==
  CollectionDone =>
    LET decls == DeclSeq
    IN  \A i \in 1..Len(decls) :
          /\ decls[i].alias \in DOMAIN globalTranslationMap
          /\ globalTranslationMap[decls[i].alias] = decls[i].arg

\* C5, amended: after the first pass the map binds the alias of every
\* declaration in a scanned file to the namespace of the last declaration
\* of that alias in walk order.
C5_LastDeclarationBound ==
  CollectionDone =>
    LET decls == DeclSeq
    IN  \A i \in 1..Len(decls) :
          /\ decls[i].alias \in DOMAIN globalTranslationMap
          /\ globalTranslationMap[decls[i].alias] =
               LastDeclarationIn(decls, decls[i].alias).arg

\* The first pass is over, one alias was declared with two namespaces and
\* the map holds the later one.
C5_Witness ==
  /\ pc = "resolve"
  /\ LET decls == DeclSeq
     IN  \E i, j \in 1..Len(decls) :
           /\ i < j
           /\ decls[i].alias = decls[j].alias
           /\ decls[i].arg # decls[j].arg
           /\ globalTranslationMap[decls[i].alias] = decls[j].arg

\* C6: after a successful run there is one dictionary per extracted
\* namespace, it lists exactly the keys extracted with that namespace, each
\* once, and every value is the empty string.
C6_NamespaceDictionaries ==
  pc = "done" =>
    /\ DOMAIN i18nDir = {keys[i].Namespace : i \in 1..Len(keys)}
    /\ \A ns \in DOMAIN i18nDir :
         LET members == i18nDir[ns].pairs
             wanted  == {keys[i].Key : i \in {j \in 1..Len(keys) : keys[j].Namespace = ns}}
         IN  /\ i18nDir[ns].kind = "text"
             /\ {members[i][1] : i \in 1..Len(members)} = wanted
             /\ Len(members) = Cardinality(wanted)
             /\ \A i \in 1..Len(members) : members[i][2] = Empty

\* A run finished in which one namespace got two keys from more than two
\* call sites, and another namespace exists.
C6_Witness ==
  /\ pc = "done"
  /\ Cardinality(DOMAIN i18nDir) >= 2
  /\ \E ns \in DOMAIN i18nDir :
       /\ Len(i18nDir[ns].pairs) = 2
       /\ Cardinality({j \in 1..Len(keys) : keys[j].Namespace = ns}) > 2

\* C7: a run that started after the previous run's output directory was
\* removed ends with the same files, with the same content, as that
\* previous run.
C7_ExtractTwiceSameOutput ==
  (pc = "done" /\ runs >= 2 /\ startedClean) => i18nDir = lastOutput

C7_Witness ==
  /\ pc = "done" /\ runs >= 2 /\ startedClean
  /\ \E ns \in DOMAIN i18nDir : Len(i18nDir[ns].pairs) = 2

\* The number of lines of the ignore file that are exactly .i18n/
PatternLines(txt) ==
  Cardinality({i \in 1..Len(txt) :
                 /\ txt[i] = P
                 /\ (i = 1 \/ txt[i - 1] = N)
                 /\ (i = Len(txt) \/ txt[i + 1] = N)})

GitignoreUpdated == pc \in {"generate", "write", "done"}

\* C8: the ignore file never holds two .i18n/ lines; once updateGitignore
\* has returned without error the file holds the pattern; it is the file
\* the run found when that already held the pattern, the single line
\* .i18n/ when there was no file, and else the old text followed by the
\* new line.
C8_IgnoreFileIdempotent ==
  /\ PatternLines(gitignore.text) <= 1
  /\ GitignoreUpdated =>
       /\ gitignore.kind = "text"
       /\ \E i \in 1..Len(gitignore.text) : gitignore.text[i] = P
       /\ IF gitignoreAtStart.kind = "missing"
          THEN gitignore.text = <<P, N>>
          ELSE IF \E i \in 1..Len(gitignoreAtStart.text) : gitignoreAtStart.text[i] = P
               THEN gitignore = gitignoreAtStart
               ELSE /\ IsPrefix(gitignoreAtStart.text, gitignore.text)
                    /\ PatternLines(gitignore.text) = 1

\* A second run finished on the file the first run had appended to.
C8_Witness ==
  /\ pc = "done" /\ runs = 2
  /\ gitignore = gitignoreAtStart
  /\ gitignore.text = <<"x", N, P, N>>

\* C9, as claimed: both passes read exactly the .tsx files with no pruned
\* directory below the scan root on their path.
C9_PruningBelowRoot ==
  /\ \A p \in visited1 \cup visited2 : ~PrunedBelowRoot(p)
  /\ PassesDone => (visited1 = EligibleFiles /\ visited2 = EligibleFiles)

\* The namespace the second pass must give a matched call.
ExpectedNamespace(decls, alias) ==
  IF alias \in AliasesIn(decls) THEN LastDeclarationIn(decls, alias).arg
  ELSE ToLower(Tail(alias))

ExpectedEntries(decls, path) ==
  LET calls == SelectSeq(tree[path].content, MatchesCall)
  IN  [i \in 1..Len(calls) |->
         TranslationKey(calls[i].arg, ExpectedNamespace(decls, calls[i].alias), path)]

ExpectedKeys(decls) ==
  LET scanned == ScannedIn(2)
  IN  Concat([i \in 1..Len(scanned) |-> ExpectedEntries(decls, scanned[i].path)])

\* C10: no call is resolved while declarations are still being collected;
\* from then on the map binds each declared alias to its last declaration
\* in walk order, and every call, in whatever file, is resolved against
\* that complete map.
C10_TwoPassLastWriterWins ==
  /\ pc = "collect" => keys = <<>>
  /\ CollectionDone =>
       LET decls    == DeclSeq
           expected == ExpectedKeys(decls)
       IN  /\ DOMAIN globalTranslationMap = AliasesIn(decls)
           /\ \A x \in AliasesIn(decls) :
                globalTranslationMap[x] = LastDeclarationIn(decls, x).arg
           /\ IsPrefix(keys, expected)
           /\ PassesDone => keys = expected

\* a.tsx, visited first, calls tA without declaring it; src/c.tsx, visited
\* later, declares tA for namespace b; the call in a.tsx got namespace b.
C10_Witness ==
  /\ pc = "done"
  /\ ATsx \in DOMAIN tree /\ CTsx \in DOMAIN tree
  /\ \A i \in 1..Len(tree[ATsx].content) : tree[ATsx].content[i].kind = "call"
  /\ \E i \in 1..Len(keys) :
       /\ keys[i].File = ATsx
       /\ keys[i].Namespace = nsB
       /\ keys[i].Key = keyK
  /\ \E i \in 1..Len(tree[CTsx].content) :
       tree[CTsx].content[i] = Decl(tA, nsB)

\* The files either walk comes to: none when the root itself is pruned.
ReachableFiles == IF shouldSkipDir(rootName) THEN {} ELSE EligibleFiles

\* The files whose read fails in a pass.
FailsIn(pass) == {p \in ReachableFiles : ~tree[p].readable /\ pass \in failing}

TreeWithout(paths) == [p \in DOMAIN tree \ paths |-> tree[p]]

\* The files of a tree that a walk reads, in walk order.
FilesOf(tr) ==
  SelectSeq(AllEntries,
            LAMBDA e : /\ ~e.isDir
                       /\ e.path \in DOMAIN tr
                       /\ HasSuffixTsx(LastName(e.path))
                       /\ ~PrunedBelowRoot(e.path)
                       /\ ~shouldSkipDir(rootName))

\* The alias map the first pass builds on a tree whose files can all be read.
RECURSIVE MapOfFiles(_, _)
MapOfFiles(tr, files) ==
  IF files = <<>> THEN EmptyMap
  ELSE MergeIntoGlobal(MapOfFiles(tr, SubSeq(files, 1, Len(files) - 1)),
                       extractUseTranslationDeclarations(tr[files[Len(files)].path].content))

MapOf(tr) == MapOfFiles(tr, FilesOf(tr))

\* The entries the second pass extracts from such a tree with a given map.
KeysOf(tr, globalMapping) ==
  LET files == FilesOf(tr)
  IN  Concat([i \in 1..Len(files) |->
                parseFileWithMapping(files[i].path, tr[files[i].path].content,
                                     globalMapping)])

\* C11: a source file that cannot be read in a pass gets a warning in that
\* pass and stops neither walk: each pass still comes to every file the
\* walk reaches, the command never fails before both passes are over, and
\* the alias map and the entries are those of the same tree without the
\* files whose read failed in the pass.
C11_UnreadableFileSkipped ==
  /\ CollectionDone =>
       /\ visited1 = ReachableFiles
       /\ warnings1 = FailsIn(1)
       /\ globalTranslationMap = MapOf(TreeWithout(FailsIn(1)))
  /\ PassesDone =>
       /\ visited2 = ReachableFiles
       /\ warnings2 = FailsIn(2)
       /\ keys = KeysOf(TreeWithout(FailsIn(2)), globalTranslationMap)
  /\ pc = "failed" => (visited1 = ReachableFiles /\ visited2 = ReachableFiles)

\* a.tsx could not be read in either pass and was warned about twice;
\* src/c.tsx, visited after it, gave a binding and an entry, and the run
\* finished.
C11_Witness ==
  /\ pc = "done"
  /\ warnings1 = {ATsx} /\ warnings2 = {ATsx}
  /\ CTsx \in visited1 /\ CTsx \in visited2
  /\ DOMAIN globalTranslationMap # {}
  /\ \E i \in 1..Len(keys) : keys[i].File = CTsx

====
